---- MODULE Spec2Model ----
(***************************************************************************)
(* guarded-routes-next: the route-pattern lookup (searchMapForRoute), the  *)
(* memoized merge of the guarded-route fragments                            *)
(* (getApplicationGuardedRoutes), the composed decision (isPathAllowed)     *)
(* and the middleware built on it (guardMiddleware).                        *)
(*                                                                         *)
(* A JavaScript string is a sequence of one-character strings, so that      *)
(* split, slice, join and the template literal `${path}/*` are computed    *)
(* character by character.  JavaScript objects that the code shares by      *)
(* reference (the role and flag lists stored under a pattern) live in a     *)
(* heap and are named by references.                                        *)
(***************************************************************************)
EXTENDS Integers, Sequences, FiniteSets, TLC

VARIABLES
    \* ---- searchMapForRoute applied on its own (SpecSearch) ----
    sPath,                \* pathname of the last lookup
    sRoutes,              \* routes table of the last lookup
    sResult,              \* what the lookup returned
    \* ---- one generateGuardedRoutes instance (Spec, SpecMut) ----
    initValue,            \* the caller's initValue object (live)
    applicationGuardedRoutes, \* the caller's fragments (live)
    heap,                 \* the role / flag lists, by reference
    middlewareRejectKind, \* which rejection handler the caller supplied
    mergedApplicationGuardedRoutes, \* the closure variable of index.ts:72
    reqs,                 \* the calls in flight, one record per slot
    callsStarted,         \* number of calls started so far
    \* ---- history (observations, never read by the program) ----
    initValueAtConstruction,  \* deep copy of initValue as passed in
    fragmentsAtConstruction,  \* deep copy of the fragments as passed in
    mergeRuns,            \* number of times the reduce of index.ts:76 ran
    firstReturned,        \* deep value of the accessor's first result
    lastReturned,         \* deep value of the accessor's latest result
    mutations             \* number of mutations the caller made to a fragment

searchVars == <<sPath, sRoutes, sResult>>
programVars == <<initValue, applicationGuardedRoutes, heap, middlewareRejectKind,
                 mergedApplicationGuardedRoutes, reqs, callsStarted>>
historyVars == <<initValueAtConstruction, fragmentsAtConstruction, mergeRuns,
                 firstReturned, lastReturned, mutations>>
vars == <<searchVars, programVars, historyVars>>

-----------------------------------------------------------------------------
(* Bounds *)

\* largest number of pattern keys in a routes table handed to searchMapForRoute
MaxTableKeys == 3
\* largest number of fragments in applicationGuardedRoutes
MaxFragments == 2
\* largest number of isPathAllowed / guardMiddleware calls in one behaviour
MaxCalls == 3
\* largest number of mutations the caller makes to its fragments (SpecMut)
MaxMutations == 1
\* longest role list a mutation may build (SpecMut)
MaxListLen == 2

-----------------------------------------------------------------------------
(* JavaScript values *)

Undefined == "undefined"
TypeError == "TypeError"
NoResult == "none"

\* JavaScript truthiness of a value stored under a pattern: the tables hold
\* arrays and functions (objects, always truthy); undefined is falsy.
Truthy(v) == v # Undefined

\* The value found under a category of a configuration: an object (a mapping
\* from pattern to value), an array, or undefined when the category is missing.
UndefinedValue == [kind |-> "undefined"]
Object(entries) == [kind |-> "object", entries |-> entries]
Array(items) == [kind |-> "array", items |-> items]
EmptyEntries == [k \in {} |-> Undefined]

\* routes[key] on an object: the value, or undefined when the key is missing
Get(routes, key) ==
    IF key \in DOMAIN routes.entries THEN routes.entries[key] ELSE Undefined

-----------------------------------------------------------------------------
(* Strings *)

Slash == "/"
Star == "*"

Str_empty == << >>
Str_root == <<"/">>
Str_a == <<"/", "a">>
Str_a_slash == <<"/", "a", "/">>
Str_ab == <<"/", "a", "b">>
Str_a_b == <<"/", "a", "/", "b">>
Str_a_b_c == <<"/", "a", "/", "b", "/", "c">>
Str_a_c == <<"/", "a", "/", "c">>
Str_z == <<"/", "z">>
Str_rel_a == <<"a">>
Str_rel_a_b == <<"a", "/", "b">>
Str_a_star == <<"/", "a", "/", "*">>
Str_a_b_star == <<"/", "a", "/", "b", "/", "*">>
Str_ab_star == <<"/", "a", "b", "/", "*">>
Str_root_star == <<"/", "*">>
Str_rel_a_star == <<"a", "/", "*">>
Str_admin_star == <<"/", "a", "d", "m", "i", "n", "/", "*">>
Str_admin_panel == <<"/", "a", "d", "m", "i", "n", "/", "p", "a", "n", "e", "l">>
Str_public == <<"/", "p", "u", "b", "l", "i", "c">>
Str_x == <<"/", "x">>
Str_login == <<"/", "l", "o", "g", "i", "n">>

\* String.prototype.split('/'): the segments between the slashes; a string
\* without a slash (the empty string included) is its own single segment.
RECURSIVE Split(_)
Split(s) ==
    IF \A i \in 1..Len(s) : s[i] # Slash
    THEN <<s>>
    ELSE LET i == CHOOSE j \in 1..Len(s) :
                     s[j] = Slash /\ \A k \in 1..(j - 1) : s[k] # Slash
         IN  <<SubSeq(s, 1, i - 1)>> \o Split(SubSeq(s, i + 1, Len(s)))

\* Array.prototype.join('/')
RECURSIVE Join(_)
Join(parts) ==
    IF Len(parts) = 0 THEN << >>
    ELSE IF Len(parts) = 1 THEN parts[1]
    ELSE parts[1] \o <<Slash>> \o Join(Tail(parts))

\* pathParts.slice(0, i)
Slice(parts, i) == SubSeq(parts, 1, i)

\* the template literal `${path}/*`
WildcardKey(path) == path \o <<Slash, Star>>

-----------------------------------------------------------------------------
(* searchMapForRoute, index.ts:7-20 *)

\* the loop of index.ts:15-18, from i down to 1
RECURSIVE SearchWildcardFrom(_, _, _)
SearchWildcardFrom(pathParts, routes, i) ==
    IF i <= 0 THEN Undefined
    ELSE LET path == Join(Slice(pathParts, i))
         IN  IF Truthy(Get(routes, WildcardKey(path)))
             THEN Get(routes, WildcardKey(path))
             ELSE SearchWildcardFrom(pathParts, routes, i - 1)

\* a loop that starts one segment short of the whole path
LoopStartSkipsFullPath(pathParts) == Len(pathParts) - 1

\* the first index the loop of index.ts:15 tries
LoopStart(pathParts) == Len(pathParts)

\* a lookup that never tries the exact key
ExactMatchNever(pathname, routes) == FALSE

\* index.ts:11, the exact match tried before any wildcard
ExactMatch(pathname, routes) == Truthy(Get(routes, pathname))

\* routes is the object under a category, or Undefined when the category is
\* missing: routes[pathname] on undefined throws a TypeError.
searchMapForRoute(pathname, routes) ==
    IF routes.kind = "undefined" THEN TypeError
    ELSE IF ExactMatch(pathname, routes) THEN Get(routes, pathname)
    ELSE LET pathParts == Split(pathname)
         IN  SearchWildcardFrom(pathParts, routes, LoopStart(pathParts))

-----------------------------------------------------------------------------
(* searchMapForRoute applied on its own: SpecSearch *)

SearchKeys == {Str_a_star, Str_a_b_star, Str_a_b, Str_root_star, Str_ab_star,
               Str_rel_a_star}
SearchValues == {"v1", "v2"}
SearchPaths == {Str_empty, Str_root, Str_a, Str_a_slash, Str_ab, Str_a_b,
                Str_a_b_c, Str_a_c, Str_z, Str_rel_a, Str_rel_a_b, Str_a_star,
                Str_ab_star}

SearchTables ==
    UNION {[keys -> SearchValues] :
              keys \in {ks \in SUBSET SearchKeys : Cardinality(ks) <= MaxTableKeys}}

-----------------------------------------------------------------------------
(* The configuration: GuardedRoutes of README.md:41-49, and a category that *)
(* the caller declares as a plain array (index.ts:80-81)                    *)

Categories == {"roleBasedRoutes", "featureFlaggedRoutes", "specialChecksRoutes",
               "defaultRedirects", "arrayCategory"}

\* references to the lists stored under a pattern
ListRefs == {"adminList", "editorList", "betaList"}

HeapAtConstruction ==
    [ref \in ListRefs |->
        CASE ref = "adminList" -> <<"admin">>
          [] ref = "editorList" -> <<"editor">>
          [] ref = "betaList" -> <<"betaFeature">>]

\* an object holding one key
Single(key, value) == [k \in {key} |-> value]

\* a configuration object: every category, undefined when it has no such key
Config(present) ==
    [c \in Categories |-> IF c \in DOMAIN present THEN present[c] ELSE UndefinedValue]

\* initValue of README.md:111-115: no defaultRedirects
InitValueReadme ==
    Config([roleBasedRoutes |-> Object(EmptyEntries),
            specialChecksRoutes |-> Object(EmptyEntries),
            featureFlaggedRoutes |-> Object(EmptyEntries)])

\* an initValue that pre-populates every category (index.ts:30-31)
InitValueFull ==
    Config([roleBasedRoutes |-> Object(Single(Str_x, "editorList")),
            specialChecksRoutes |-> Object(EmptyEntries),
            featureFlaggedRoutes |-> Object(EmptyEntries),
            defaultRedirects |-> Object(EmptyEntries),
            arrayCategory |-> Array(<<"item0">>)])

\* an initValue with only the two required categories (README.md:41-49)
InitValueRequired ==
    Config([roleBasedRoutes |-> Object(EmptyEntries),
            featureFlaggedRoutes |-> Object(EmptyEntries)])

InitValues == {InitValueReadme, InitValueFull, InitValueRequired}

\* a fragment has only the keys it declares: `for (const key in curr)`
FragmentAdmin ==
    [roleBasedRoutes |-> Object(Single(Str_admin_star, "adminList"))]

FragmentXAdmin ==
    [roleBasedRoutes |-> Object(Single(Str_x, "adminList")),
     arrayCategory |-> Array(<<"item1">>)]

FragmentXEditor ==
    [roleBasedRoutes |-> Object(Single(Str_x, "editorList")),
     specialChecksRoutes |-> UndefinedValue,
     arrayCategory |-> Array(<<"item2">>)]

\* the shape of safePageGuardedRoutes, README.md:148-167
FragmentSafePage ==
    [featureFlaggedRoutes |-> Object(Single(Str_a_star, "betaList")),
     specialChecksRoutes |-> Object(Single(Str_a_b, "specialCheck")),
     defaultRedirects |-> Object(Single(Str_a_star, "redirectToLogin"))]

Fragments == {FragmentAdmin, FragmentXAdmin, FragmentXEditor, FragmentSafePage}

FragmentLists ==
    UNION {[1..n -> Fragments] : n \in 0..MaxFragments}

\* the instances the calls are run on: initValue and applicationGuardedRoutes
Instances ==
    {<<InitValueReadme, <<FragmentAdmin>> >>,
     <<InitValueReadme, <<FragmentSafePage>> >>,
     <<InitValueReadme, <<FragmentXEditor, FragmentXAdmin>> >>,
     <<InitValueFull, << >> >>,
     <<InitValueFull, <<FragmentXAdmin, FragmentXEditor>> >>,
     <<InitValueFull, <<FragmentAdmin, FragmentSafePage>> >>,
     <<InitValueRequired, <<FragmentXAdmin>> >>,
     <<InitValueRequired, <<FragmentSafePage, FragmentAdmin>> >>}

-----------------------------------------------------------------------------
(* getApplicationGuardedRoutes, index.ts:74-91 *)

\* the property name an array index becomes under object spread
IndexKey(i) == <<ToString(i - 1)>>

\* the own enumerable properties that `...value` copies into an object
\* literal: an object's entries, an array's items by index, nothing for
\* undefined
SpreadEntries(value) ==
    CASE value.kind = "object" -> value.entries
      [] value.kind = "array" ->
            [k \in {IndexKey(i) : i \in 1..Len(value.items)} |->
                value.items[CHOOSE i \in 1..Len(value.items) : IndexKey(i) = k]]
      [] OTHER -> EmptyEntries

\* a spread in which the earlier source wins on a key of both
ObjectSpreadEarlierWins(a, b) ==
    LET ea == SpreadEntries(a)
        eb == SpreadEntries(b)
    IN  Object([k \in (DOMAIN ea) \cup (DOMAIN eb) |->
                  IF k \in DOMAIN ea THEN ea[k] ELSE eb[k]])

\* {...a, ...b}, index.ts:83: on a key of both, the later source wins
ObjectSpread(a, b) ==
    LET ea == SpreadEntries(a)
        eb == SpreadEntries(b)
    IN  Object([k \in (DOMAIN ea) \cup (DOMAIN eb) |->
                  IF k \in DOMAIN eb THEN eb[k] ELSE ea[k]])

\* [...a, ...b], index.ts:81
ArraySpread(a, b) == Array(a.items \o b.items)

\* the body of the for-in loop for one key, index.ts:80-84: the new acc[key]
MergeKey(accValue, currValue) ==
    IF accValue.kind = "array" THEN ArraySpread(accValue, currValue)
    ELSE IF currValue.kind # "undefined" THEN ObjectSpread(accValue, currValue)
    ELSE accValue

\* the reducer, index.ts:78-87: acc with every key of curr merged in place
Reducer(acc, curr) ==
    [c \in Categories |->
        IF c \in DOMAIN curr THEN MergeKey(acc[c], curr[c]) ELSE acc[c]]

\* applicationGuardedRoutes.reduce(reducer, initValue), index.ts:76-89
RECURSIVE Reduce(_, _)
Reduce(acc, fragments) ==
    IF Len(fragments) = 0 THEN acc
    ELSE Reduce(Reducer(acc, Head(fragments)), Tail(fragments))

\* a memo test that never finds the cached value
MemoHitNever(merged) == FALSE

\* index.ts:75: the memo test
MemoHit(merged) == merged # Undefined

\* the object the closure variable refers to after the reduce: reduce returns
\* its accumulator, which is the initValue object itself
InitValueRef == "initValue"

-----------------------------------------------------------------------------
(* The calls in flight *)

Slots == {1, 2}
RequestPaths == {Str_admin_panel, Str_public, Str_x, Str_a_b}

\* the request object of the hosting framework: request.nextUrl carries the
\* path, the query parameters, the host and the protocol
NextUrl(pathname) ==
    [pathname |-> pathname, searchParams |-> "searchParams",
     host |-> "host", protocol |-> "https://"]
Request(pathname) == [nextUrl |-> NextUrl(pathname)]

\* the response handed to guardMiddleware, returned as is on allow
OriginalResponse == [status |-> "next", url |-> << >>]
NotFound == [status |-> "error404", url |-> << >>]
Redirect(protocol, host, target) ==
    [status |-> "redirect", url |-> <<protocol, host, target>>]
Thrown(error) == [status |-> "thrown", url |-> <<error>>]
NoResponse == [status |-> "none", url |-> << >>]

\* the two shapes of rejection handler a caller can supply:
\*  "destructuresRequest": README.md:89-91, reads nextUrl off its argument
\*  "takesNextUrl": reads host, protocol, pathname off its argument, which
\*                  is what index.ts:107 passes (request.nextUrl)
MiddlewareRejectKinds == {"destructuresRequest", "takesNextUrl"}

Predicates == <<"checkRouteForRole", "checkRouteForFeatureFlag",
                "checkRouteForSpecialChecks">>

Idle ==
    [kind |-> "none", path |-> << >>, pc |-> "idle", invoked |-> << >>,
     results |-> << >>, decision |-> "none", rejectCalls |-> 0,
     rejectArgs |-> << >>, returned |-> NoResponse, via |-> "none"]

\* the deep value of a configuration: every list reference replaced by the
\* list it names now
DeepValue(v, h) == IF v \in DOMAIN h THEN h[v] ELSE <<v>>
Deep(config, h) ==
    [c \in DOMAIN config |->
        IF config[c].kind = "object"
        THEN Object([k \in DOMAIN config[c].entries |->
                        DeepValue(config[c].entries[k], h)])
        ELSE config[c]]
DeepFragments(fragments, h) ==
    [i \in DOMAIN fragments |-> Deep(fragments[i], h)]

NotYet == << >>

-----------------------------------------------------------------------------
(* getApplicationGuardedRoutes as a step: index.ts:74-91 *)

\* One call of the accessor.  The caller then reads initValue', the object
\* the accessor returned.
GetApplicationGuardedRoutes ==
    /\ IF MemoHit(mergedApplicationGuardedRoutes)
       THEN /\ initValue' = initValue
            /\ mergeRuns' = mergeRuns
       ELSE /\ initValue' = Reduce(initValue, applicationGuardedRoutes)
            /\ mergeRuns' = mergeRuns + 1
    /\ mergedApplicationGuardedRoutes' = InitValueRef
    /\ firstReturned' = IF firstReturned = NotYet
                        THEN <<Deep(initValue', heap)>> ELSE firstReturned
    /\ lastReturned' = <<Deep(initValue', heap)>>

NoAccess ==
    UNCHANGED <<initValue, mergedApplicationGuardedRoutes, mergeRuns,
                firstReturned, lastReturned>>

-----------------------------------------------------------------------------
(* The predicates and their composition, README.md:64-107 *)

Includes(list, item) == \E i \in 1..Len(list) : list[i] = item

\* a role check that denies a path without a rule
RoleAnswerDeniesAbsent(roles) ==
    IF ~Truthy(roles) THEN "false"
    ELSE IF Includes(heap[roles], "admin") THEN "false" ELSE "true"

\* README.md:68-69: what checkRouteForRole answers for the value it looked up
RoleAnswer(roles) ==
    IF ~Truthy(roles) THEN "true"
    ELSE IF Includes(heap[roles], "admin") THEN "false" ELSE "true"

\* checkRouteForRole, README.md:65-70, on the configuration the accessor gave
checkRouteForRole(config, pathname) ==
    LET roles == searchMapForRoute(pathname, config.roleBasedRoutes)
    IN  IF roles = TypeError THEN "threw" ELSE RoleAnswer(roles)

\* a conjunction that evaluates its right operand whatever the left one is
EvaluatesNextAlways(result) == TRUE

\* `a && b`, README.md:103-105: the right operand is evaluated only when the
\* left one is true
EvaluatesNext(result) == result = "true"

PcOfPredicate(i) == IF i = 2 THEN "flag" ELSE "special"

\* the predicate at position i of the composition starts
Invoke(req, i) == [req EXCEPT !.invoked = Append(@, Predicates[i])]

\* the predicate that was running answers `result` ("true", "false") or
\* throws / rejects ("threw")
Settle(req, result) ==
    LET i == Len(req.invoked)
        results == Append(req.results, result)
        finished(decision) ==
            [req EXCEPT !.results = results, !.decision = decision,
                        !.pc = IF req.kind = "isPathAllowed"
                               THEN "done" ELSE "settled"]
    IN  IF result = "threw" THEN finished("threw")
        ELSE IF EvaluatesNext(result) /\ i < Len(Predicates)
        THEN [req EXCEPT !.results = results, !.pc = PcOfPredicate(i + 1)]
        ELSE finished(result)

\* isPathAllowed(path), index.ts:93-94, or guardMiddleware(request, response),
\* index.ts:96-103, up to the first suspension: checkRouteForRole runs
Start(r, kind, pathname) ==
    /\ callsStarted < MaxCalls
    /\ reqs[r].pc \in {"idle", "done"}
    /\ callsStarted' = callsStarted + 1
    /\ GetApplicationGuardedRoutes
    /\ reqs' = [reqs EXCEPT ![r] =
                   Settle(Invoke([Idle EXCEPT !.kind = kind, !.path = pathname], 1),
                          checkRouteForRole(initValue', pathname))]
    /\ UNCHANGED <<searchVars, applicationGuardedRoutes, heap, middlewareRejectKind,
                   initValueAtConstruction, fragmentsAtConstruction, mutations>>

CallIsPathAllowed(r, pathname) == Start(r, "isPathAllowed", pathname)

CallGuardMiddleware(r, pathname) == Start(r, "guardMiddleware", pathname)

\* checkRouteForFeatureFlag, README.md:73-78, up to `await getFlags(...)`
CheckRouteForFeatureFlag(r) ==
    /\ reqs[r].pc = "flag"
    /\ GetApplicationGuardedRoutes
    /\ LET req == Invoke(reqs[r], 2)
           featureFlags ==
               searchMapForRoute(req.path, initValue'.featureFlaggedRoutes)
       IN  reqs' = [reqs EXCEPT ![r] =
                       IF featureFlags = TypeError THEN Settle(req, "threw")
                       ELSE IF ~Truthy(featureFlags) THEN Settle(req, "true")
                       ELSE [req EXCEPT !.pc = "awaitFlags"]]
    /\ UNCHANGED <<searchVars, applicationGuardedRoutes, heap, middlewareRejectKind,
                   callsStarted, initValueAtConstruction, fragmentsAtConstruction,
                   mutations>>

\* the feature-flag service answers, or fails
GetFlagsSettles(r, outcome) ==
    /\ reqs[r].pc = "awaitFlags"
    /\ reqs' = [reqs EXCEPT ![r] = Settle(reqs[r], outcome)]
    /\ NoAccess
    /\ UNCHANGED <<searchVars, applicationGuardedRoutes, heap, middlewareRejectKind,
                   callsStarted, initValueAtConstruction, fragmentsAtConstruction,
                   mutations>>

\* checkRouteForSpecialChecks, README.md:81-86, up to the call of the check
CheckRouteForSpecialChecks(r) ==
    /\ reqs[r].pc = "special"
    /\ GetApplicationGuardedRoutes
    /\ LET req == Invoke(reqs[r], 3)
           relevantRouteValues ==
               searchMapForRoute(req.path, initValue'.specialChecksRoutes)
       IN  reqs' = [reqs EXCEPT ![r] =
                       IF relevantRouteValues = TypeError THEN Settle(req, "threw")
                       ELSE IF ~Truthy(relevantRouteValues) THEN Settle(req, "true")
                       ELSE [req EXCEPT !.pc = "awaitSpecial"]]
    /\ UNCHANGED <<searchVars, applicationGuardedRoutes, heap, middlewareRejectKind,
                   callsStarted, initValueAtConstruction, fragmentsAtConstruction,
                   mutations>>

\* the special check answers, or fails
SpecialCheckSettles(r, outcome) ==
    /\ reqs[r].pc = "awaitSpecial"
    /\ reqs' = [reqs EXCEPT ![r] = Settle(reqs[r], outcome)]
    /\ NoAccess
    /\ UNCHANGED <<searchVars, applicationGuardedRoutes, heap, middlewareRejectKind,
                   callsStarted, initValueAtConstruction, fragmentsAtConstruction,
                   mutations>>

PredicateOutcomes == {"true", "false", "threw"}

-----------------------------------------------------------------------------
(* guardMiddleware after the decision, index.ts:102-107, and the rejection  *)
(* handler, README.md:89-97                                                   *)

\* a middleware whose catch block lets the request through
GuardMiddlewareBranchFailOpen(decision) ==
    IF decision = "false" THEN "middlewareReject" ELSE "returnResponse"

\* a middleware that tests the promise instead of awaiting it: always truthy
GuardMiddlewareBranchMissingAwait(decision) == "returnResponse"

\* index.ts:102-107: what guardMiddleware does with the settled decision.
\* A true decision returns the response; a false one falls out of the try;
\* a failure is caught, logged, and falls through to the same line 107.
GuardMiddlewareBranch(decision) ==
    IF decision = "true" THEN "returnResponse" ELSE "middlewareReject"

\* README.md:90-91: the navigation context the handler reads its fields from,
\* wrapped in a sequence; empty when the handler looks for a nextUrl
\* property that its argument does not have (destructuring undefined throws)
HandlerNextUrl(kind, arg) ==
    IF kind = "destructuresRequest"
    THEN IF "nextUrl" \in DOMAIN arg THEN <<arg.nextUrl>> ELSE << >>
    ELSE <<arg>>

\* does the handler call the accessor (README.md:92)?
HandlerReachesAccessor(kind, arg) == HandlerNextUrl(kind, arg) # << >>

\* README.md:94-96 for a settled redirect target: a falsy target is 404
RejectResponse(nextUrl, target) ==
    IF target = Str_empty THEN NotFound
    ELSE Redirect(nextUrl.protocol, nextUrl.host, target)

RedirectOutcomes == {"resolvesLogin", "resolvesEmpty", "rejects"}

GuardMiddlewareResume(r) ==
    /\ reqs[r].pc = "settled"
    /\ LET req == reqs[r]
           branch == GuardMiddlewareBranch(req.decision)
           arg == Request(req.path).nextUrl
           called == [req EXCEPT !.rejectCalls = @ + 1,
                                 !.rejectArgs = <<"getApplicationGuardedRoutes", arg>>,
                                 !.via = "middlewareReject"]
           finish(q, response) == [q EXCEPT !.pc = "done", !.returned = response]
       IN  IF branch = "returnResponse"
           THEN /\ reqs' = [reqs EXCEPT ![r] =
                               finish([req EXCEPT !.via = "response"], OriginalResponse)]
                /\ NoAccess
           ELSE IF ~HandlerReachesAccessor(middlewareRejectKind, arg)
           THEN /\ reqs' = [reqs EXCEPT ![r] = finish(called, Thrown(TypeError))]
                /\ NoAccess
           ELSE /\ GetApplicationGuardedRoutes
                /\ LET nextUrl == HandlerNextUrl(middlewareRejectKind, arg)[1]
                       defaultRedirect ==
                           searchMapForRoute(nextUrl.pathname,
                                             initValue'.defaultRedirects)
                   IN  reqs' = [reqs EXCEPT ![r] =
                                   IF defaultRedirect = TypeError
                                   THEN finish(called, Thrown(TypeError))
                                   ELSE IF ~Truthy(defaultRedirect)
                                   THEN finish(called, NotFound)
                                   ELSE [called EXCEPT !.pc = "awaitRedirect"]]
    /\ UNCHANGED <<searchVars, applicationGuardedRoutes, heap, middlewareRejectKind,
                   callsStarted, initValueAtConstruction, fragmentsAtConstruction,
                   mutations>>

\* the redirect function found under defaultRedirects answers, or fails
DefaultRedirectSettles(r, outcome) ==
    /\ reqs[r].pc = "awaitRedirect"
    /\ LET nextUrl == reqs[r].rejectArgs[2]
       IN  reqs' = [reqs EXCEPT ![r] =
                       [@ EXCEPT !.pc = "done",
                                 !.returned =
                                     CASE outcome = "rejects" -> Thrown("redirect")
                                       [] outcome = "resolvesEmpty" ->
                                            RejectResponse(nextUrl, Str_empty)
                                       [] OTHER ->
                                            RejectResponse(nextUrl, Str_login)]]
    /\ NoAccess
    /\ UNCHANGED <<searchVars, applicationGuardedRoutes, heap, middlewareRejectKind,
                   callsStarted, initValueAtConstruction, fragmentsAtConstruction,
                   mutations>>

-----------------------------------------------------------------------------
(* The caller mutating a fragment it supplied, after the merged            *)
(* configuration was first built (SpecMut only)                            *)

MutationKeys == {Str_x}

\* fragment[category][key] = value: adds or replaces a pattern key
MutateFragmentSetKey(i, key, value) ==
    /\ mutations < MaxMutations
    /\ mergedApplicationGuardedRoutes # Undefined
    /\ i \in DOMAIN applicationGuardedRoutes
    /\ "roleBasedRoutes" \in DOMAIN applicationGuardedRoutes[i]
    /\ Get(applicationGuardedRoutes[i].roleBasedRoutes, key) # value
    /\ applicationGuardedRoutes' =
          [applicationGuardedRoutes EXCEPT ![i] =
              [@ EXCEPT !.roleBasedRoutes =
                  ObjectSpread(@, Object(Single(key, value)))]]
    /\ mutations' = mutations + 1
    /\ UNCHANGED <<searchVars, initValue, heap, middlewareRejectKind,
                   mergedApplicationGuardedRoutes, reqs, callsStarted,
                   initValueAtConstruction, fragmentsAtConstruction, mergeRuns,
                   firstReturned, lastReturned>>

\* fragment[category][key].push(item): changes the list stored under a key
MutateFragmentListPush(i, key, item) ==
    /\ mutations < MaxMutations
    /\ mergedApplicationGuardedRoutes # Undefined
    /\ i \in DOMAIN applicationGuardedRoutes
    /\ "roleBasedRoutes" \in DOMAIN applicationGuardedRoutes[i]
    /\ key \in DOMAIN applicationGuardedRoutes[i].roleBasedRoutes.entries
    /\ LET ref == applicationGuardedRoutes[i].roleBasedRoutes.entries[key]
       IN  /\ Len(heap[ref]) < MaxListLen
           /\ heap' = [heap EXCEPT ![ref] = Append(@, item)]
    /\ mutations' = mutations + 1
    /\ UNCHANGED <<searchVars, initValue, applicationGuardedRoutes,
                   middlewareRejectKind, mergedApplicationGuardedRoutes, reqs,
                   callsStarted, initValueAtConstruction, fragmentsAtConstruction,
                   mergeRuns, firstReturned, lastReturned>>

-----------------------------------------------------------------------------
(* Specifications *)

SearchIdle ==
    /\ sPath = Str_empty
    /\ sRoutes = Object(EmptyEntries)
    /\ sResult = NoResult

\* generateGuardedRoutes(params), index.ts:66-72: nothing is merged yet
InitProgram ==
    /\ \E instance \in Instances :
          /\ initValue = instance[1]
          /\ applicationGuardedRoutes = instance[2]
    /\ heap = HeapAtConstruction
    /\ middlewareRejectKind \in MiddlewareRejectKinds
    /\ mergedApplicationGuardedRoutes = Undefined
    /\ reqs = [r \in Slots |-> Idle]
    /\ callsStarted = 0
    /\ initValueAtConstruction = Deep(initValue, heap)
    /\ fragmentsAtConstruction = DeepFragments(applicationGuardedRoutes, heap)
    /\ mergeRuns = 0
    /\ firstReturned = NotYet
    /\ lastReturned = NotYet
    /\ mutations = 0

Init == SearchIdle /\ InitProgram

Next ==
    \/ \E r \in Slots, pathname \in RequestPaths : CallIsPathAllowed(r, pathname)
    \/ \E r \in Slots, pathname \in RequestPaths : CallGuardMiddleware(r, pathname)
    \/ \E r \in Slots : CheckRouteForFeatureFlag(r)
    \/ \E r \in Slots, outcome \in PredicateOutcomes : GetFlagsSettles(r, outcome)
    \/ \E r \in Slots : CheckRouteForSpecialChecks(r)
    \/ \E r \in Slots, outcome \in PredicateOutcomes : SpecialCheckSettles(r, outcome)
    \/ \E r \in Slots : GuardMiddlewareResume(r)
    \/ \E r \in Slots, outcome \in RedirectOutcomes : DefaultRedirectSettles(r, outcome)

Spec == Init /\ [][Next]_vars

\* the same program, with a caller that mutates the fragments it supplied
Mutate ==
    \/ \E i \in 1..MaxFragments, key \in MutationKeys :
          MutateFragmentSetKey(i, key, "adminList")
    \/ \E i \in 1..MaxFragments, key \in MutationKeys \cup {Str_admin_star} :
          MutateFragmentListPush(i, key, "admin")

NextMut == Next \/ Mutate

SpecMut == Init /\ [][NextMut]_vars

\* getApplicationGuardedRoutes on its own inputs: any initValue and any list
\* of fragments, and the accessor called again and again
InitMerge ==
    /\ SearchIdle
    /\ initValue \in InitValues
    /\ applicationGuardedRoutes \in FragmentLists
    /\ heap = HeapAtConstruction
    /\ middlewareRejectKind = "takesNextUrl"
    /\ mergedApplicationGuardedRoutes = Undefined
    /\ reqs = [r \in Slots |-> Idle]
    /\ callsStarted = 0
    /\ initValueAtConstruction = Deep(initValue, heap)
    /\ fragmentsAtConstruction = DeepFragments(applicationGuardedRoutes, heap)
    /\ mergeRuns = 0
    /\ firstReturned = NotYet
    /\ lastReturned = NotYet
    /\ mutations = 0

Access ==
    /\ GetApplicationGuardedRoutes
    /\ UNCHANGED <<searchVars, applicationGuardedRoutes, heap, middlewareRejectKind,
                   reqs, callsStarted, initValueAtConstruction,
                   fragmentsAtConstruction, mutations>>

SpecMerge == InitMerge /\ [][Access]_vars

\* searchMapForRoute on its own inputs
Lookup ==
    /\ sResult = NoResult
    /\ sResult' = searchMapForRoute(sPath, sRoutes)
    /\ UNCHANGED <<sPath, sRoutes, programVars, historyVars>>

InitSearch ==
    /\ sPath \in SearchPaths
    /\ sRoutes \in {Object(entries) : entries \in SearchTables}
    /\ sResult = NoResult
    /\ initValue = InitValueReadme
    /\ applicationGuardedRoutes = << >>
    /\ heap = HeapAtConstruction
    /\ middlewareRejectKind = "takesNextUrl"
    /\ mergedApplicationGuardedRoutes = Undefined
    /\ reqs = [r \in Slots |-> Idle]
    /\ callsStarted = 0
    /\ initValueAtConstruction = Deep(initValue, heap)
    /\ fragmentsAtConstruction = << >>
    /\ mergeRuns = 0
    /\ firstReturned = NotYet
    /\ lastReturned = NotYet
    /\ mutations = 0

SpecSearch == InitSearch /\ [][Lookup]_vars

-----------------------------------------------------------------------------
(* Route patterns, stated on the characters of the path *)

\* prefix is path, or path continues after prefix with a slash
IsPathPrefix(prefix, path) ==
    \/ prefix = path
    \/ /\ Len(prefix) < Len(path)
       /\ SubSeq(path, 1, Len(prefix)) = prefix
       /\ path[Len(prefix) + 1] = Slash

IsWildcard(key) ==
    Len(key) >= 2 /\ key[Len(key) - 1] = Slash /\ key[Len(key)] = Star

WildcardPrefix(key) == SubSeq(key, 1, Len(key) - 2)

MatchingWildcards(path, entries) ==
    {key \in DOMAIN entries :
        IsWildcard(key) /\ IsPathPrefix(WildcardPrefix(key), path)}

\* the value of the most specific pattern of entries that matches path
MostSpecific(path, entries) ==
    LET matching == MatchingWildcards(path, entries)
    IN  IF path \in DOMAIN entries THEN entries[path]
        ELSE IF matching = {} THEN Undefined
        ELSE entries[CHOOSE key \in matching :
                        \A other \in matching : Len(other) <= Len(key)]

-----------------------------------------------------------------------------
(* Claims about searchMapForRoute (SpecSearch) *)

\* C3: searchMapForRoute returns the value of the most specific matching
\* pattern: the exact key when the table has it, otherwise the wildcard
\* pattern with the longest prefix of whole segments, otherwise undefined.
C3_MostSpecificPatternWins ==
    sResult # NoResult => sResult = MostSpecific(sPath, sRoutes.entries)

\* /a/b/c looked up in a table with /a/* and /a/b/* (different values)
\* returned the value of /a/b/*
C3_Witness ==
    /\ sPath = Str_a_b_c
    /\ {Str_a_star, Str_a_b_star} \subseteq DOMAIN sRoutes.entries
    /\ sRoutes.entries[Str_a_star] # sRoutes.entries[Str_a_b_star]
    /\ sResult = sRoutes.entries[Str_a_b_star]

\* C4: in a table whose only key is one wildcard pattern P/*, a path gets the
\* pattern's value exactly when it is P or continues P with a slash; every
\* other path, one whose segment merely starts with the text of P's last
\* segment included, gets undefined.
C4_WholeSegmentsOnly ==
    \A key \in SearchKeys :
        (/\ sResult # NoResult
         /\ IsWildcard(key)
         /\ DOMAIN sRoutes.entries = {key})
        => sResult =
              IF \/ sPath = WildcardPrefix(key)
                 \/ /\ Len(sPath) > Len(WildcardPrefix(key))
                    /\ SubSeq(sPath, 1, Len(WildcardPrefix(key)) + 1)
                          = WildcardPrefix(key) \o <<Slash>>
              THEN sRoutes.entries[key]
              ELSE Undefined

\* /ab looked up in a table whose only key is /a/* returned undefined
C4_Witness ==
    /\ sPath = Str_ab
    /\ DOMAIN sRoutes.entries = {Str_a_star}
    /\ sResult = Undefined

-----------------------------------------------------------------------------
(* Claims about the merge (SpecMerge) *)

\* the items the first n fragments contribute to an array category
RECURSIVE ItemsOfFragments(_, _, _)
ItemsOfFragments(fragments, category, n) ==
    IF n = 0 THEN << >>
    ELSE ItemsOfFragments(fragments, category, n - 1)
         \o (IF category \in DOMAIN fragments[n]
             THEN fragments[n][category].items ELSE << >>)

\* the fragments that define key under a mapping category
Definers(fragments, category, key) ==
    {i \in DOMAIN fragments :
        /\ category \in DOMAIN fragments[i]
        /\ fragments[i][category].kind = "object"
        /\ key \in DOMAIN fragments[i][category].entries}

Last(indices) == CHOOSE i \in indices : \A j \in indices : j <= i

EntriesOf(value) == IF value.kind = "object" THEN value.entries ELSE EmptyEntries

IsMappingCategory(category) ==
    /\ initValueAtConstruction[category].kind # "array"
    /\ \A i \in DOMAIN fragmentsAtConstruction :
          category \in DOMAIN fragmentsAtConstruction[i]
             => fragmentsAtConstruction[i][category].kind # "array"

\* C7: once built, the merged configuration is the fold of the fragments onto
\* initValue: an array category is initValue's array followed by every
\* fragment's array in fragment order; a mapping category has the keys of
\* initValue and of every fragment, each with the value of the last fragment
\* that defines it (initValue's value when no fragment does).
C7_MergedIsFoldOfFragments ==
    mergedApplicationGuardedRoutes # Undefined =>
        \A category \in Categories :
            LET merged == Deep(initValue, heap)[category]
                init == initValueAtConstruction[category]
                frags == fragmentsAtConstruction
            IN  /\ init.kind = "array" =>
                      /\ merged.kind = "array"
                      /\ merged.items =
                            init.items \o ItemsOfFragments(frags, category, Len(frags))
                /\ IsMappingCategory(category) =>
                      /\ DOMAIN EntriesOf(merged) =
                            (DOMAIN EntriesOf(init)) \cup
                            UNION {DOMAIN EntriesOf(frags[i][category]) :
                                     i \in {j \in DOMAIN frags :
                                               category \in DOMAIN frags[j]}}
                      /\ \A key \in DOMAIN EntriesOf(merged) :
                            LET definers == Definers(frags, category, key)
                            IN  merged.entries[key] =
                                  IF definers = {} THEN init.entries[key]
                                  ELSE frags[Last(definers)][category].entries[key]

\* {"/x": ["admin"]} then {"/x": ["editor"]} were merged onto an initValue with
\* an array category: /x holds ["editor"], the array is item0, item1, item2
C7_Witness ==
    /\ mergedApplicationGuardedRoutes # Undefined
    /\ applicationGuardedRoutes = <<FragmentXAdmin, FragmentXEditor>>
    /\ initValueAtConstruction = Deep(InitValueFull, HeapAtConstruction)
    /\ Deep(initValue, heap).roleBasedRoutes.entries[Str_x] = <<"editor">>
    /\ initValue.arrayCategory.items = <<"item0", "item1", "item2">>

-----------------------------------------------------------------------------
(* Claims about the calls (Spec, SpecMut) *)

Settled(q) == q.decision # "none"

\* what a lookup in a category of the merged configuration finds
Rule(category, path) ==
    IF initValue[category].kind # "object" THEN TypeError
    ELSE MostSpecific(path, initValue[category].entries)

\* C8: the reduce over the fragments runs at most once, and every accessor
\* call after the first returns what the first call returned.
C8_MergeRunsAtMostOnce ==
    /\ mergeRuns <= 1
    /\ firstReturned # NotYet => lastReturned = firstReturned

\* one call made three accessor calls (one per predicate) on an instance
\* with fragments, and the reduce ran once
C8_Witness ==
    /\ mergeRuns = 1
    /\ Len(applicationGuardedRoutes) > 0
    /\ \E r \in Slots : reqs[r].pc = "done" /\ Len(reqs[r].invoked) = 3
    /\ \E r \in Slots : reqs[r].pc = "done" /\ reqs[r].rejectCalls = 1

\* C9 (as claimed): after the first access, no mutation of a fragment changes
\* the configuration the accessor returns.
C9_CacheIsolatedFromFragments ==
    firstReturned # NotYet => <<Deep(initValue, heap)>> = firstReturned

\* C10 (as claimed): initValue and the fragments stay as they were when
\* passed to generateGuardedRoutes.
C10_SuppliedEntitiesUnchanged ==
    /\ Deep(initValue, heap) = initValueAtConstruction
    /\ DeepFragments(applicationGuardedRoutes, heap) = fragmentsAtConstruction

\* C5: a settled decision is false for every path whose role rule contains
\* "admin", and true for every path that has no rule in any guard category.
C5_AdminDeniedAbsentAllowed ==
    \A r \in Slots :
        LET q == reqs[r]
            roles == Rule("roleBasedRoutes", q.path)
        IN  Settled(q) =>
              /\ (roles \in ListRefs /\ Includes(heap[roles], "admin"))
                    => q.decision = "false"
              /\ (\A category \in {"roleBasedRoutes", "featureFlaggedRoutes",
                                   "specialChecksRoutes"} :
                        Rule(category, q.path) = Undefined)
                    => q.decision = "true"

\* on {roleBasedRoutes: {"/admin/*": ["admin"]}}, isPathAllowed("/admin/panel")
\* resolved false and isPathAllowed("/public") resolved true
C5_Witness ==
    /\ applicationGuardedRoutes = <<FragmentAdmin>>
    /\ initValueAtConstruction = Deep(InitValueReadme, HeapAtConstruction)
    /\ \E r \in Slots :
          /\ reqs[r].kind = "isPathAllowed" /\ reqs[r].path = Str_admin_panel
          /\ reqs[r].pc = "done" /\ reqs[r].decision = "false"
    /\ \E r \in Slots :
          /\ reqs[r].kind = "isPathAllowed" /\ reqs[r].path = Str_public
          /\ reqs[r].pc = "done" /\ reqs[r].decision = "true"

\* C6: the predicates start in the supplied order; a predicate that does not
\* answer true is the last one started; the decision is false only when the
\* last predicate answered false, and true only when all of them answered
\* true.
C6_ShortCircuitConjunction ==
    \A r \in Slots :
        LET q == reqs[r]
            n == Len(q.invoked)
        IN  /\ n <= Len(Predicates)
            /\ q.invoked = SubSeq(Predicates, 1, n)
            /\ Len(q.results) \in {n, n - 1}
            /\ \A i \in 1..Len(q.results) :
                  q.results[i] # "true" => i = n /\ q.decision = q.results[i]
            /\ q.decision = "false" => q.results[n] = "false"
            /\ q.decision = "true" =>
                  /\ n = Len(Predicates)
                  /\ \A i \in 1..n : q.results[i] = "true"

\* the second predicate answered false: the third never started and the
\* decision is false
C6_Witness ==
    \E r \in Slots :
        /\ reqs[r].pc = "done"
        /\ reqs[r].invoked = <<"checkRouteForRole", "checkRouteForFeatureFlag">>
        /\ reqs[r].results = <<"true", "false">>
        /\ reqs[r].decision = "false"

\* what the rejection handler of the instance produces without suspending,
\* for a path: its own TypeError, a 404, or nothing yet (it awaits the redirect)
HandlerProduces(path) ==
    IF middlewareRejectKind = "destructuresRequest" THEN {Thrown(TypeError)}
    ELSE IF Rule("defaultRedirects", path) = TypeError THEN {Thrown(TypeError)}
    ELSE IF Rule("defaultRedirects", path) = Undefined THEN {NotFound}
    ELSE {Redirect("https://", "host", Str_login), NotFound, Thrown("redirect")}

\* C1: when isPathAllowed throws or rejects, guardMiddleware catches the
\* failure: it never returns the response it was given, it calls the
\* rejection handler once, and what it returns is what the handler produced.
C1_FailClosedOnThrow ==
    \A r \in Slots :
        LET q == reqs[r]
        IN  (q.kind = "guardMiddleware" /\ q.decision = "threw") =>
              /\ q.returned # OriginalResponse
              /\ q.via # "response"
              /\ q.pc \in {"awaitRedirect", "done"} =>
                    /\ q.via = "middlewareReject"
                    /\ q.rejectCalls = 1
              /\ q.pc = "done" => q.returned \in HandlerProduces(q.path)

\* a predicate threw, and guardMiddleware returned the handler's 404 or
\* redirect
C1_Witness ==
    \E r \in Slots :
        /\ reqs[r].kind = "guardMiddleware"
        /\ reqs[r].decision = "threw"
        /\ reqs[r].pc = "done"
        /\ reqs[r].rejectCalls = 1
        /\ reqs[r].returned.status \in {"redirect", "error404"}

====
